---- MODULE Spec2Model ----
(***************************************************************************)
(* Unified record store of EthioPulse-Forecaster (src/src/data_utils.py):  *)
(* the schema validator, the loader and the three append operations over   *)
(* one flat table whose rows are told apart by record_type.                *)
(*                                                                         *)
(* A table (pandas DataFrame) is [cols, rows]: cols is df.columns, rows is *)
(* the sequence of rows in index order.  All tables here carry a           *)
(* RangeIndex, so the row with index label k is rows[k + 1].  A row is a   *)
(* function over AllCols; a cell the table has no column for, or that is   *)
(* missing, holds NA(column).                                              *)
(***************************************************************************)
EXTENDS Integers, Sequences, FiniteSets, TLC

\* ------------------------------------------------------------ bounds ----
\* Largest table built by the add_* operations.
MaxRows == 3
\* Largest table read from a file.
MaxFileRows == 3

\* ------------------------------------------------------------ cells -----
\* Missing value of a text column (None / NaN in an object column).
None == "None"
\* Missing value of a numeric column (NaN); no index label or year equals it.
NaN == -1

IntCols == {"year", "value", "source_event", "target_observation", "record_id"}
StrCols == {"record_type", "pillar", "source_type", "confidence", "event_name",
            "event_type", "impact_direction", "note"}
AllCols == IntCols \cup StrCols

NA(c) == IF c \in IntCols THEN NaN ELSE None

\* pd.isna / Series.notna on one cell of column c
notna(c, v) == v # NA(c)

\* the six-member enumeration, as written in validate_record_type and
\* load_unified_data
valid_types == {"observation", "event", "impact_link", "target", "baseline", "forecast"}

\* pd.DataFrame()
EmptyTable == [cols |-> {}, rows |-> << >>]

\* len(df)
len(t) == Len(t.rows)

\* df.index of a table with a RangeIndex
index(t) == 0 .. (len(t) - 1)

\* df.empty: no rows or no columns
empty(t) == len(t) = 0 \/ t.cols = {}

\* df.loc[k]
loc(t, k) == t.rows[k + 1]

\* index labels of df[df[c] == v]
where(t, c, v) == {k \in index(t) : loc(t, k)[c] = v}

\* a call that raises returns no table to its caller
raise(error) == [status |-> error, table |-> EmptyTable]

\* ------------------------------------------------------- validator ------
\* variant: a table without the discriminator column is passed as "cannot
\* validate", the way the other two checks treat it
validate_record_type_skips_missing_column(t) ==
    IF "record_type" \notin t.cols THEN TRUE
    ELSE LET invalid == {k \in index(t) : loc(t, k)["record_type"] \notin valid_types}
         IN  IF Cardinality(invalid) > 0 THEN FALSE ELSE TRUE

\* UnifiedSchemaValidator.validate_record_type
validate_record_type(t) ==
    IF "record_type" \notin t.cols THEN FALSE
    ELSE LET invalid == {k \in index(t) : loc(t, k)["record_type"] \notin valid_types}
         IN  IF Cardinality(invalid) > 0 THEN FALSE ELSE TRUE

\* variant: .all() in place of .any()
validate_events_no_pillar_all(t) ==
    IF empty(t) \/ "record_type" \notin t.cols THEN TRUE
    ELSE LET events == where(t, "record_type", "event")
             has_pillar == \A k \in events : notna("pillar", loc(t, k)["pillar"])
         IN  IF Cardinality(events) > 0 /\ "pillar" \in t.cols /\ has_pillar
             THEN FALSE ELSE TRUE

\* UnifiedSchemaValidator.validate_events_no_pillar
validate_events_no_pillar(t) ==
    IF empty(t) \/ "record_type" \notin t.cols THEN TRUE
    ELSE LET events == where(t, "record_type", "event")
             has_pillar == \E k \in events : notna("pillar", loc(t, k)["pillar"])
         IN  IF Cardinality(events) > 0 /\ "pillar" \in t.cols /\ has_pillar
             THEN FALSE ELSE TRUE

\* variant: an unresolved reference makes the check fail
validate_impact_links_strict(t) ==
    IF empty(t) \/ "record_type" \notin t.cols
    THEN [ret |-> TRUE, invalid_events |-> {}, invalid_obs |-> {}]
    ELSE LET impact_links == where(t, "record_type", "impact_link")
             events == where(t, "record_type", "event")
             observations == where(t, "record_type", "observation")
             invalid_events ==
                 IF "source_event" \in t.cols
                 THEN {k \in impact_links : loc(t, k)["source_event"] \notin events}
                 ELSE {}
             invalid_obs ==
                 IF "target_observation" \in t.cols
                 THEN {k \in impact_links : loc(t, k)["target_observation"] \notin observations}
                 ELSE {}
         IN  [ret |-> invalid_events = {} /\ invalid_obs = {},
              invalid_events |-> invalid_events, invalid_obs |-> invalid_obs]

\* UnifiedSchemaValidator.validate_impact_links: the value returned (ret) and
\* the warnings logged (index labels of the links each warning counts)
validate_impact_links(t) ==
    IF empty(t) \/ "record_type" \notin t.cols
    THEN [ret |-> TRUE, invalid_events |-> {}, invalid_obs |-> {}]
    ELSE LET impact_links == where(t, "record_type", "impact_link")
             events == where(t, "record_type", "event")
             observations == where(t, "record_type", "observation")
             invalid_events ==
                 IF "source_event" \in t.cols
                 THEN {k \in impact_links : loc(t, k)["source_event"] \notin events}
                 ELSE {}
             invalid_obs ==
                 IF "target_observation" \in t.cols
                 THEN {k \in impact_links : loc(t, k)["target_observation"] \notin observations}
                 ELSE {}
         IN  IF Cardinality(impact_links) = 0
             THEN [ret |-> TRUE, invalid_events |-> {}, invalid_obs |-> {}]
             ELSE [ret |-> TRUE, invalid_events |-> invalid_events,
                   invalid_obs |-> invalid_obs]

\* ---------------------------------------------------------- loader ------
\* variant: the loader also runs validate_impact_links and rejects a table
\* with an unresolved reference
load_unified_data_checks_links(t) ==
    LET invalid == {k \in index(t) : loc(t, k)["record_type"] \notin valid_types}
        links == validate_impact_links(t)
    IN  IF "record_type" \in t.cols /\ Cardinality(invalid) > 0
        THEN raise("ValueError")
        ELSE IF ~ validate_events_no_pillar(t)
        THEN raise("ValueError")
        ELSE IF links.invalid_events # {} \/ links.invalid_obs # {}
        THEN raise("ValueError")
        ELSE IF "record_type" \notin t.cols
        THEN raise("KeyError")
        ELSE [status |-> "ok", table |-> t]

\* load_unified_data, from the table read from the file on: the outcome
\* (status) and the table returned
load_unified_data(t) ==
    LET invalid == {k \in index(t) : loc(t, k)["record_type"] \notin valid_types}
    IN  IF "record_type" \in t.cols /\ Cardinality(invalid) > 0
        THEN raise("ValueError")
        ELSE IF ~ validate_events_no_pillar(t)
        THEN raise("ValueError")
        \* the log line reads df['record_type']
        ELSE IF "record_type" \notin t.cols
        THEN raise("KeyError")
        ELSE [status |-> "ok", table |-> t]

\* ------------------------------------------------------------- CSV ------
\* numbers a cell of a saved file holds: row references, years, values
Numbers == (0 .. (MaxRows + MaxFileRows)) \cup {2020, 2021} \cup {40}

\* the text to_csv writes for a number: a column holding a missing value
\* is a float column
number_text(n, is_float) == IF is_float THEN ToString(n) \o ".0" ELSE ToString(n)

\* the column c of table t has dtype float64
is_float(t, c) == \E k \in index(t) : loc(t, k)[c] = NaN

\* df.to_csv(output_path, index=False): the header and one line of cell
\* texts per row, a missing value written as the empty text
to_csv(t) ==
    [header |-> t.cols,
     lines |-> [i \in 1 .. len(t) |->
                  [c \in t.cols |->
                      IF t.rows[i][c] = NA(c) THEN ""
                      ELSE IF c \in IntCols
                      THEN number_text(t.rows[i][c], is_float(t, c))
                      ELSE t.rows[i][c]]]]

\* save_enriched_data
save_enriched_data(t) == to_csv(t)

\* texts pd.read_csv reads as a missing value
na_values == {"", "#N/A", "#N/A N/A", "#NA", "-1.#IND", "-1.#QNAN", "-NaN", "-nan",
              "1.#IND", "1.#QNAN", "<NA>", "N/A", "NA", "NULL", "NaN", "None",
              "n/a", "nan", "null"}

\* the value pd.read_csv gives the cell text s of column c
parse(c, s) ==
    IF s \in na_values THEN NA(c)
    ELSE IF c \in IntCols
    THEN CHOOSE n \in Numbers : s \in {number_text(n, FALSE), number_text(n, TRUE)}
    ELSE s

\* pd.read_csv(file_path): a file without a header line has no columns to
\* parse
read_csv(f) ==
    IF f.header = {} THEN raise("EmptyDataError")
    ELSE [status |-> "ok",
          table |-> [cols |-> f.header,
                     rows |-> [i \in 1 .. Len(f.lines) |->
                                 [c \in AllCols |->
                                     IF c \in f.header THEN parse(c, f.lines[i][c])
                                     ELSE NA(c)]]]]

\* load_unified_data(path) of the file save_enriched_data(df, path) wrote
load_saved(f) ==
    LET read == read_csv(f)
    IN  IF read.status # "ok" THEN read ELSE load_unified_data(read.table)

\* -------------------------------------------------------- mutators ------
\* dict.update
update(d, m) ==
    [c \in (DOMAIN d) \cup (DOMAIN m) |-> IF c \in DOMAIN m THEN m[c] ELSE d[c]]

\* variant: a column the call does not supply takes the value of the
\* table's last row
ensure_columns_from_last_row(t, d) ==
    [c \in (DOMAIN d) \cup t.cols |->
        IF c \in DOMAIN d THEN d[c]
        ELSE IF len(t) > 0 THEN loc(t, len(t) - 1)[c] ELSE NA(c)]

\* "Ensure all columns exist": for col in df.columns: if col not in
\* new_record: new_record[col] = None
ensure_columns(t, d) ==
    [c \in (DOMAIN d) \cup t.cols |-> IF c \in DOMAIN d THEN d[c] ELSE NA(c)]

\* variant: pd.concat([pd.DataFrame([new_record]), df], ignore_index=True)
concat_new_row_first(t, d) ==
    [cols |-> t.cols \cup DOMAIN d,
     rows |-> <<[c \in AllCols |-> IF c \in DOMAIN d THEN d[c] ELSE NA(c)]>> \o t.rows]

\* pd.concat([df, pd.DataFrame([new_record])], ignore_index=True)
concat(t, d) ==
    [cols |-> t.cols \cup DOMAIN d,
     rows |-> Append(t.rows, [c \in AllCols |-> IF c \in DOMAIN d THEN d[c] ELSE NA(c)])]

\* new_record with the optional metadata merged in and the table's other
\* columns filled, appended to the table
append_record(t, new_record, metadata) ==
    LET merged == IF DOMAIN metadata # {} THEN update(new_record, metadata)
                  ELSE new_record
    IN  concat(t, ensure_columns(t, merged))

\* add_observation
add_observation(t, year, value, pillar, source_type, confidence, metadata) ==
    IF pillar \notin {"access", "usage"}
    THEN raise("ValueError")
    ELSE [status |-> "ok",
          table |-> append_record(t,
              [record_type |-> "observation", year |-> year, value |-> value,
               pillar |-> pillar, source_type |-> source_type,
               confidence |-> confidence], metadata)]

\* add_event
add_event(t, year, event_name, event_type, source_type, confidence, metadata) ==
    [status |-> "ok",
     table |-> append_record(t,
         [record_type |-> "event", year |-> year, event_name |-> event_name,
          event_type |-> event_type, source_type |-> source_type,
          confidence |-> confidence], metadata)]

\* df.loc[idx, 'record_type'] raises KeyError when the column or the label
\* does not exist
loc_raises(t, idx) == "record_type" \notin t.cols \/ idx \notin index(t)

\* variant: the target row is not checked
add_impact_link_unchecked_target(t, source_event_idx, target_observation_idx, impact_direction, confidence, metadata) ==
    IF loc_raises(t, source_event_idx)
    THEN raise("KeyError")
    ELSE IF loc(t, source_event_idx)["record_type"] # "event"
    THEN raise("ValueError")
    ELSE [status |-> "ok",
          table |-> append_record(t,
              [record_type |-> "impact_link", source_event |-> source_event_idx,
               target_observation |-> target_observation_idx,
               impact_direction |-> impact_direction, confidence |-> confidence],
              metadata)]

\* add_impact_link
add_impact_link(t, source_event_idx, target_observation_idx, impact_direction, confidence, metadata) ==
    IF loc_raises(t, source_event_idx)
    THEN raise("KeyError")
    ELSE IF loc(t, source_event_idx)["record_type"] # "event"
    THEN raise("ValueError")
    ELSE IF loc_raises(t, target_observation_idx)
    THEN raise("KeyError")
    ELSE IF loc(t, target_observation_idx)["record_type"] # "observation"
    THEN raise("ValueError")
    ELSE [status |-> "ok",
          table |-> append_record(t,
              [record_type |-> "impact_link", source_event |-> source_event_idx,
               target_observation |-> target_observation_idx,
               impact_direction |-> impact_direction, confidence |-> confidence],
              metadata)]

\* ---------------------------------------------------- composition ------
\* a sub-expression of a read: whether evaluating it raised, and its value
returned(v) == [raised |-> "no", val |-> v]
failed(error) == [raised |-> error, val |-> << >>]

\* an empty mapping {}
empty_dict == [v \in {} |-> 0]

\* df.loc[rows, c].value_counts().to_dict(): missing values are not counted;
\* df[c] raises KeyError when the table has no column c
value_counts(t, rows, c) ==
    IF c \notin t.cols THEN failed("KeyError")
    ELSE returned([v \in {loc(t, k)[c] : k \in rows} \ {NA(c)} |->
                   Cardinality({k \in rows : loc(t, k)[c] = v})])

\* composition['by_record_type']
by_record_type(t) ==
    IF "record_type" \in t.cols /\ len(t) > 0
    THEN value_counts(t, index(t), "record_type") ELSE returned(empty_dict)

\* variant: the pillar column is not tested before it is read
by_pillar_unguarded(t) ==
    IF "record_type" \in t.cols
       /\ Cardinality(where(t, "record_type", "observation")) > 0
    THEN value_counts(t, where(t, "record_type", "observation"), "pillar")
    ELSE returned(empty_dict)

\* variant: pillars are counted over the rows of every kind
by_pillar_all_kinds(t) ==
    IF "record_type" \in t.cols /\ "pillar" \in t.cols
       /\ Cardinality(where(t, "record_type", "observation")) > 0
    THEN value_counts(t, index(t), "pillar")
    ELSE returned(empty_dict)

\* composition['by_pillar']
by_pillar(t) ==
    IF "record_type" \in t.cols /\ "pillar" \in t.cols
       /\ Cardinality(where(t, "record_type", "observation")) > 0
    THEN value_counts(t, where(t, "record_type", "observation"), "pillar")
    ELSE returned(empty_dict)

\* composition['by_source_type']
by_source_type(t) ==
    IF "source_type" \in t.cols /\ len(t) > 0
    THEN value_counts(t, index(t), "source_type") ELSE returned(empty_dict)

\* composition['by_confidence']
by_confidence(t) ==
    IF "confidence" \in t.cols /\ len(t) > 0
    THEN value_counts(t, index(t), "confidence") ELSE returned(empty_dict)

\* int(df.loc[rows, 'year'].min()) and int(....max()): the missing values
\* are skipped; int(NaN) raises ValueError
year_min_max(t, rows) ==
    LET years == {loc(t, k)["year"] : k \in rows} \ {NaN}
    IN  IF years = {} THEN failed("ValueError")
        ELSE returned([min |-> CHOOSE y \in years : \A z \in years : y <= z,
                    max |-> CHOOSE y \in years : \A z \in years : z <= y])

\* variant: int(df['year'].min()) if 'year' in df.columns else None
year_range_unguarded(t) ==
    IF "year" \in t.cols
    THEN year_min_max(t, index(t))
    ELSE returned([min |-> NaN, max |-> NaN])

\* variant: the years of the observation rows only
year_range_of_observations(t) ==
    IF "year" \in t.cols /\ len(t) > 0
       /\ \E k \in where(t, "record_type", "observation") : loc(t, k)["year"] # NaN
    THEN year_min_max(t, where(t, "record_type", "observation"))
    ELSE returned([min |-> NaN, max |-> NaN])

\* composition['year_range']; None is NaN here
year_range(t) ==
    IF "year" \in t.cols /\ len(t) > 0 /\ \E k \in index(t) : loc(t, k)["year"] # NaN
    THEN year_min_max(t, index(t))
    ELSE returned([min |-> NaN, max |-> NaN])

\* quantify_dataset_composition: the outcome and the composition returned
quantify_dataset_composition(t) ==
    LET parts == <<by_record_type(t), by_pillar(t), by_source_type(t),
                   by_confidence(t), year_range(t)>>
    IN  IF \E i \in 1 .. 5 : parts[i].raised # "no"
        THEN [status |-> parts[CHOOSE i \in 1 .. 5 :
                                  /\ parts[i].raised # "no"
                                  /\ \A j \in 1 .. (i - 1) : parts[j].raised = "no"].raised,
              composition |-> << >>]
        ELSE [status |-> "ok",
              composition |-> [total_records |-> len(t),
                               by_record_type |-> parts[1].val,
                               by_pillar |-> parts[2].val,
                               by_source_type |-> parts[3].val,
                               by_confidence |-> parts[4].val,
                               year_range |-> parts[5].val]]

\* ------------------------------------------------- impact summary -------
\* the labels of S in index order
RECURSIVE ascending(_)
ascending(S) ==
    IF S = {} THEN << >>
    ELSE LET m == CHOOSE x \in S : \A y \in S : x <= y
         IN  <<m>> \o ascending(S \ {m})

\* largest label of a non-empty S
last_of(S) == CHOOSE x \in S : \A y \in S : y <= x

\* _rid of row k: index + 1 unless the table has a record_id column
rid(t, k) == IF "record_id" \notin t.cols /\ t.cols # {} THEN k + 1
             ELSE loc(t, k)["record_id"]

\* rows.set_index("_rid")[c].to_dict().get(key, default): the last row of
\* rows with that _rid wins
dict_get(t, rows, c, key, default) ==
    LET hits == {k \in rows : rid(t, k) = key}
    IN  IF hits = {} THEN default ELSE loc(t, last_of(hits))[c]

\* the name the summary row of a link to event reference se gets
summary_name(t, events, se) ==
    LET name == IF "event_name" \in t.cols
                THEN dict_get(t, events, "event_name", se, None) ELSE None
        match == {k \in events : rid(t, k) = se}
    IN  IF name # None THEN name
        ELSE IF match # {} /\ "event_type" \in t.cols
        THEN loc(t, CHOOSE k \in match : \A j \in match : k <= j)["event_type"]
        ELSE "Event " \o ToString(se)

\* the summary row of link k
summary_row(t, obs, events, k) ==
    LET se == loc(t, k)["source_event"]
        to == loc(t, k)["target_observation"]
    IN  [event_name |-> summary_name(t, events, se),
         event_year |-> dict_get(t, events, "year", se, NaN),
         indicator |-> dict_get(t, obs, "pillar", to, "Unknown"),
         direction |-> IF "impact_direction" \in t.cols
                       THEN loc(t, k)["impact_direction"] ELSE "positive"]

\* variant: returns early only when there is no impact_link row
get_events_with_impacts_links_only(t) ==
    IF "record_type" \notin t.cols THEN [status |-> "KeyError", rows |-> << >>]
    ELSE LET obs == where(t, "record_type", "observation")
             events == where(t, "record_type", "event")
             links == where(t, "record_type", "impact_link")
             kept == {k \in links : /\ loc(t, k)["source_event"] # NaN
                                    /\ loc(t, k)["target_observation"] # NaN}
         IN  IF links = {}
             THEN [status |-> "ok", rows |-> << >>]
             ELSE IF "pillar" \notin t.cols \/ "year" \notin t.cols
             THEN [status |-> "KeyError", rows |-> << >>]
             ELSE [status |-> "ok",
                   rows |-> [i \in 1 .. Cardinality(kept) |->
                               summary_row(t, obs, events, ascending(kept)[i])]]

\* get_events_with_impacts (dashboard/data_loader.py): the outcome and the
\* summary rows, in the order of the links
get_events_with_impacts(t) ==
    IF "record_type" \notin t.cols THEN [status |-> "KeyError", rows |-> << >>]
    ELSE LET obs == where(t, "record_type", "observation")
             events == where(t, "record_type", "event")
             links == where(t, "record_type", "impact_link")
             \* links with a missing reference are skipped
             kept == {k \in links : /\ loc(t, k)["source_event"] # NaN
                                    /\ loc(t, k)["target_observation"] # NaN}
         IN  IF obs = {} \/ events = {} \/ links = {}
             THEN [status |-> "ok", rows |-> << >>]
             ELSE IF "pillar" \notin t.cols \/ "year" \notin t.cols
             THEN [status |-> "KeyError", rows |-> << >>]
             ELSE [status |-> "ok",
                   rows |-> [i \in 1 .. Cardinality(kept) |->
                               summary_row(t, obs, events, ascending(kept)[i])]]

\* ----------------------------------------------- dashboard readers ------
\* groupby("year")["value"].mean() of the rows: per year the sum and the
\* number of the values averaged
mean_by_year(t, rows) ==
    LET RECURSIVE sum(_)
        sum(S) == IF S = {} THEN 0
                  ELSE LET k == CHOOSE x \in S : TRUE
                       IN  loc(t, k)["value"] + sum(S \ {k})
    IN  [y \in {loc(t, k)["year"] : k \in rows} |->
            LET at == {k \in rows : loc(t, k)["year"] = y}
            IN  [sum |-> sum(at), n |-> Cardinality(at)]]

\* load_observations (dashboard/data_loader.py): the outcome and the access
\* and usage series
load_observations(t) ==
    IF "record_type" \notin t.cols THEN [status |-> "KeyError", series |-> << >>]
    ELSE LET obs == where(t, "record_type", "observation")
             kept == {k \in obs : loc(t, k)["year"] # NaN /\ loc(t, k)["value"] # NaN}
         IN  IF obs = {}
             THEN [status |-> "ok", series |-> [access |-> << >>, usage |-> << >>]]
             ELSE IF "year" \notin t.cols \/ "value" \notin t.cols
                     \/ "pillar" \notin t.cols
             THEN [status |-> "KeyError", series |-> << >>]
             ELSE [status |-> "ok",
                   series |->
                       [access |-> mean_by_year(t, {k \in kept : loc(t, k)["pillar"] = "access"}),
                        usage |-> mean_by_year(t, {k \in kept : loc(t, k)["pillar"] = "usage"})]]

\* events.get("event_type", "") of row k
event_type_or_blank(t, k) ==
    IF "event_type" \in t.cols THEN loc(t, k)["event_type"] ELSE ""

\* the event_name load_events gives event row k; a source_event standing in
\* for the name is given as its text
display_name(t, k) ==
    IF "event_name" \in t.cols
    THEN IF loc(t, k)["event_name"] # None THEN loc(t, k)["event_name"]
         ELSE event_type_or_blank(t, k)
    ELSE IF "source_event" \in t.cols
    THEN IF loc(t, k)["source_event"] # NaN
         THEN number_text(loc(t, k)["source_event"], is_float(t, "source_event"))
         ELSE event_type_or_blank(t, k)
    ELSE loc(t, k)["event_type"]

\* load_events (dashboard/data_loader.py): the outcome and the rows
\* returned, in table order
load_events(t) ==
    IF "record_type" \notin t.cols THEN [status |-> "KeyError", rows |-> << >>]
    ELSE LET events == where(t, "record_type", "event")
             kept == ascending({k \in events : loc(t, k)["year"] # NaN})
         IN  IF events = {} THEN [status |-> "ok", rows |-> << >>]
             ELSE IF "year" \notin t.cols \/ "event_type" \notin t.cols
             THEN [status |-> "KeyError", rows |-> << >>]
             ELSE [status |-> "ok",
                   rows |-> [i \in 1 .. Len(kept) |->
                               [year |-> loc(t, kept[i])["year"],
                                event_name |-> display_name(t, kept[i]),
                                event_type |-> loc(t, kept[i])["event_type"]]]]

\* ---------------------------------------------------- query helpers -----
\* get_observations_by_pillar: the outcome and the index labels of the rows
\* returned
get_observations_by_pillar(t, pillar) ==
    IF "record_type" \notin t.cols \/ "pillar" \notin t.cols
    THEN [status |-> "KeyError", rows |-> {}]
    ELSE [status |-> "ok",
          rows |-> {k \in where(t, "record_type", "observation") :
                       loc(t, k)["pillar"] = pillar}]

\* get_events_by_year; year = NaN stands for year=None
get_events_by_year(t, year) ==
    IF "record_type" \notin t.cols THEN [status |-> "KeyError", rows |-> {}]
    ELSE IF year = NaN THEN [status |-> "ok", rows |-> where(t, "record_type", "event")]
    ELSE IF "year" \notin t.cols THEN [status |-> "KeyError", rows |-> {}]
    ELSE [status |-> "ok",
          rows |-> {k \in where(t, "record_type", "event") : loc(t, k)["year"] = year}]

\* get_impact_links_for_event
get_impact_links_for_event(t, event_idx) ==
    IF "record_type" \notin t.cols \/ "source_event" \notin t.cols
    THEN [status |-> "KeyError", rows |-> {}]
    ELSE [status |-> "ok",
          rows |-> {k \in where(t, "record_type", "impact_link") :
                       loc(t, k)["source_event"] = event_idx}]

\* ------------------------------------------------------ the session -----
\* df: the table the session holds.  file: the table read from the file
\* given to the loader and the validators.  last: the last call made, its
\* checked arguments and its outcome.
\* out: what the last read returned.
VARIABLES df, file, last, out

vars == <<df, file, last, out>>

\* no read made
NoOutput == << >>

NoMetadata == [c \in {} |-> None]

\* merged: the metadata a successful add_* call merged into its new row
call(op, status, ret, S, T, pillar) ==
    [op |-> op, status |-> status, ret |-> ret, S |-> S, T |-> T, pillar |-> pillar,
     merged |-> NoMetadata]

\* the record of an add_* call made with metadata
add_call(op, r, S, T, pillar, metadata) ==
    [call(op, r.status, TRUE, S, T, pillar)
        EXCEPT !.merged = IF r.status = "ok" THEN metadata ELSE NoMetadata]

\* arguments the calls are made with
Years == {2020}
Values == {40}
Pillars == {"access", "usage", "savings"}
SourceTypes == {"NBE"}
Confidences == {"high"}
EventNames == {"Policy X"}
EventTypes == {"policy"}
Directions == {"positive"}
\* a row reference no table of the model has a row for
DanglingRef == MaxRows + MaxFileRows
Refs == 0 .. MaxRows

Metadatas == {NoMetadata,
              [c \in {"note"} |-> "x"],
              [c \in {"pillar"} |-> "savings"],
              [c \in {"record_type"} |-> "invalid_type"],
              [c \in {"source_event"} |-> DanglingRef]}

\* the caller's df = add_*(df, ...): the assignment happens only when the
\* call returns
assign(r) == df' = IF r.status = "ok" THEN r.table ELSE df

AddObservation ==
    /\ len(df) < MaxRows
    /\ \E year \in Years, value \in Values, pillar \in Pillars,
          source_type \in SourceTypes, confidence \in Confidences,
          metadata \in Metadatas :
          LET r == add_observation(df, year, value, pillar, source_type,
                                   confidence, metadata)
          IN  /\ assign(r)
              /\ last' = add_call("add_observation", r, NaN, NaN, pillar, metadata)
    /\ out' = NoOutput
    /\ UNCHANGED file

AddEvent ==
    /\ len(df) < MaxRows
    /\ \E year \in Years, event_name \in EventNames, event_type \in EventTypes,
          source_type \in SourceTypes, confidence \in Confidences,
          metadata \in Metadatas :
          LET r == add_event(df, year, event_name, event_type, source_type,
                             confidence, metadata)
          IN  /\ assign(r)
              /\ last' = add_call("add_event", r, NaN, NaN, None, metadata)
    /\ out' = NoOutput
    /\ UNCHANGED file

AddImpactLink ==
    /\ len(df) < MaxRows
    /\ \E S \in Refs, T \in Refs, impact_direction \in Directions,
          confidence \in Confidences, metadata \in Metadatas :
          LET r == add_impact_link(df, S, T, impact_direction, confidence, metadata)
          IN  /\ assign(r)
              /\ last' = add_call("add_impact_link", r, S, T, None, metadata)
    /\ out' = NoOutput
    /\ UNCHANGED file

\* save_enriched_data(df, path); df = load_unified_data(path)
SaveAndLoad ==
    /\ LET r == load_saved(save_enriched_data(df))
       IN  /\ assign(r)
           /\ last' = call("save_enriched_data", r.status, TRUE, NaN, NaN, None)
    /\ out' = NoOutput
    /\ UNCHANGED file

\* get_events_with_impacts(df)
GetEventsWithImpacts ==
    /\ LET r == get_events_with_impacts(df)
       IN  /\ last' = call("get_events_with_impacts", r.status, TRUE, NaN, NaN, None)
           /\ out' = r.rows
    /\ UNCHANGED <<df, file>>

\* get_impact_links_for_event(df, event_idx); S holds the event asked for
GetImpactLinksForEvent ==
    /\ \E event_idx \in Refs :
          LET r == get_impact_links_for_event(df, event_idx)
          IN  /\ last' = call("get_impact_links_for_event", r.status, TRUE,
                              event_idx, NaN, None)
              /\ out' = r.rows
    /\ UNCHANGED <<df, file>>

NoCall == call("none", "ok", TRUE, NaN, NaN, None)

Init ==
    /\ df = EmptyTable
    /\ file = EmptyTable
    /\ last = NoCall
    /\ out = NoOutput

Next ==
    \/ AddObservation
    \/ AddEvent
    \/ AddImpactLink
    \/ SaveAndLoad
    \/ GetEventsWithImpacts
    \/ GetImpactLinksForEvent

Spec == Init /\ [][Next]_vars

\* ------------------------------------- loading and validating a file ----
\* rows a file holds: record_type, pillar, source_event, target_observation
FileRow(rt, pillar, se, to) ==
    [c \in AllCols |-> CASE c = "record_type" -> rt
                        [] c = "pillar" -> pillar
                        [] c = "source_event" -> se
                        [] c = "target_observation" -> to
                        [] OTHER -> NA(c)]

FileRows == {FileRow("event", None, NaN, NaN),
             FileRow("event", "access", NaN, NaN),
             FileRow("observation", "access", NaN, NaN),
             FileRow("impact_link", None, 0, 1),
             FileRow("impact_link", None, DanglingRef, DanglingRef),
             FileRow("target", None, NaN, NaN),
             FileRow("invalid_type", None, NaN, NaN),
             FileRow(None, None, NaN, NaN)}

\* column sets a file has
ColSets == {{"record_type", "pillar", "source_event", "target_observation"},
            {"record_type", "source_event", "target_observation"},
            {"record_type", "pillar"},
            {"pillar", "source_event", "target_observation"}}

\* a row as the table holds it when the table has only the columns cols
project(r, cols) == [c \in AllCols |-> IF c \in cols THEN r[c] ELSE NA(c)]

SeqsUpTo(S, n) == UNION {[1 .. k -> S] : k \in 0 .. n}

Tables ==
    {EmptyTable} \cup
    {[cols |-> cs, rows |-> [i \in DOMAIN s |-> project(s[i], cs)]] :
        cs \in ColSets, s \in SeqsUpTo(FileRows, MaxFileRows)}

\* df = load_unified_data(path); read_csv gives a table with columns
LoadUnifiedData ==
    /\ file.cols # {}
    /\ LET r == load_unified_data(file)
       IN  /\ assign(r)
           /\ last' = call("load_unified_data", r.status, TRUE, NaN, NaN, None)
    /\ out' = NoOutput
    /\ UNCHANGED file

ValidateRecordType ==
    /\ last' = call("validate_record_type", "ok", validate_record_type(file),
                    NaN, NaN, None)
    /\ out' = NoOutput
    /\ UNCHANGED <<df, file>>

ValidateEventsNoPillar ==
    /\ last' = call("validate_events_no_pillar", "ok",
                    validate_events_no_pillar(file), NaN, NaN, None)
    /\ out' = NoOutput
    /\ UNCHANGED <<df, file>>

ValidateImpactLinks ==
    /\ last' = call("validate_impact_links", "ok",
                    validate_impact_links(file).ret, NaN, NaN, None)
    /\ out' = NoOutput
    /\ UNCHANGED <<df, file>>

InitLoad ==
    /\ df = EmptyTable
    /\ file \in Tables
    /\ last = NoCall
    /\ out = NoOutput

NextLoad ==
    \/ LoadUnifiedData
    \/ ValidateRecordType
    \/ ValidateEventsNoPillar
    \/ ValidateImpactLinks

SpecLoad == InitLoad /\ [][NextLoad]_vars

\* ------------------------------------------------ reading a table ------
\* rows of the tables the composition is taken of: record_type, pillar,
\* source_type, confidence, year
CompRow(rt, pillar, source_type, confidence, year) ==
    [c \in AllCols |-> CASE c = "record_type" -> rt
                        [] c = "pillar" -> pillar
                        [] c = "source_type" -> source_type
                        [] c = "confidence" -> confidence
                        [] c = "year" -> year
                        [] OTHER -> NA(c)]

CompRows == {CompRow("observation", "access", "survey", "high", 2021),
             CompRow("observation", "usage", "operator", "high", 2022),
             CompRow("event", None, "policy", "medium", 2020),
             CompRow("event", "access", None, None, NaN),
             CompRow("impact_link", None, None, "high", NaN)}

\* every subset of the columns the composition reads
CompColSets == SUBSET {"record_type", "pillar", "source_type", "confidence", "year"}

CompTables ==
    {[cols |-> cs, rows |-> [i \in DOMAIN s |-> project(s[i], cs)]] :
        cs \in CompColSets \ {{}}, s \in SeqsUpTo(CompRows, MaxFileRows)}

\* rows of the tables the dashboard reads: record_type, pillar, year,
\* event_name, event_type, source_event, target_observation,
\* impact_direction; an observation has the value 40
JoinRow(rt, pillar, year, event_name, event_type, se, to, direction) ==
    [c \in AllCols |-> CASE c = "record_type" -> rt
                        [] c = "pillar" -> pillar
                        [] c = "year" -> year
                        [] c = "value" -> IF rt = "observation" THEN 40 ELSE NaN
                        [] c = "event_name" -> event_name
                        [] c = "event_type" -> event_type
                        [] c = "source_event" -> se
                        [] c = "target_observation" -> to
                        [] c = "impact_direction" -> direction
                        [] OTHER -> NA(c)]

JoinRows == {JoinRow("event", None, 2020, "Policy X", "policy", NaN, NaN, None),
             JoinRow("event", None, 2021, None, "policy", NaN, NaN, None),
             JoinRow("event", None, 2020, None, None, NaN, NaN, None),
             JoinRow("observation", "access", 2020, None, None, NaN, NaN, None),
             JoinRow("impact_link", None, NaN, None, None, 1, 2, "positive"),
             JoinRow("impact_link", None, NaN, None, None, DanglingRef, DanglingRef,
                     "negative"),
             JoinRow("impact_link", None, NaN, None, None, NaN, NaN, "positive")}

JoinCols == {"record_type", "pillar", "year", "value", "event_name", "event_type",
             "source_event", "target_observation", "impact_direction"}

\* a fully and some partially populated stores
JoinColSets == {JoinCols,
                JoinCols \cup {"record_id"},
                JoinCols \ {"event_name"},
                JoinCols \ {"event_name", "event_type"},
                JoinCols \ {"year"},
                JoinCols \ {"pillar"},
                JoinCols \ {"value", "impact_direction"},
                JoinCols \ {"source_event", "target_observation"}}

\* the file's record_id column is the 1-based row number
JoinTables ==
    {[cols |-> cs,
      rows |-> [i \in DOMAIN s |->
                  [project(s[i], cs) EXCEPT !["record_id"] =
                      IF "record_id" \in cs THEN i ELSE NaN]]] :
        cs \in JoinColSets, s \in SeqsUpTo(JoinRows, MaxFileRows)}

\* load_observations(df)
LoadObservations ==
    /\ LET r == load_observations(df)
       IN  /\ last' = call("load_observations", r.status, TRUE, NaN, NaN, None)
           /\ out' = r.series
    /\ UNCHANGED <<df, file>>

\* load_events(df)
LoadEvents ==
    /\ LET r == load_events(df)
       IN  /\ last' = call("load_events", r.status, TRUE, NaN, NaN, None)
           /\ out' = r.rows
    /\ UNCHANGED <<df, file>>

\* get_observations_by_pillar(df, pillar)
GetObservationsByPillar ==
    /\ \E pillar \in Pillars :
          LET r == get_observations_by_pillar(df, pillar)
          IN  /\ last' = call("get_observations_by_pillar", r.status, TRUE, NaN, NaN,
                              pillar)
              /\ out' = r.rows
    /\ UNCHANGED <<df, file>>

\* get_events_by_year(df, year); S holds the year asked for
GetEventsByYear ==
    /\ \E year \in Years \cup {NaN} :
          LET r == get_events_by_year(df, year)
          IN  /\ last' = call("get_events_by_year", r.status, TRUE, year, NaN, None)
              /\ out' = r.rows
    /\ UNCHANGED <<df, file>>

\* quantify_dataset_composition(df)
QuantifyDatasetComposition ==
    /\ LET r == quantify_dataset_composition(df)
       IN  /\ last' = call("quantify_dataset_composition", r.status, TRUE, NaN, NaN,
                           None)
           /\ out' = r.composition
    /\ UNCHANGED <<df, file>>

InitRead ==
    /\ df \in {EmptyTable} \cup CompTables \cup JoinTables
    /\ file = EmptyTable
    /\ last = NoCall
    /\ out = NoOutput

NextRead ==
    \/ QuantifyDatasetComposition
    \/ GetEventsWithImpacts
    \/ LoadObservations
    \/ LoadEvents
    \/ GetObservationsByPillar
    \/ GetEventsByYear
    \/ GetImpactLinksForEvent

SpecRead == InitRead /\ [][NextRead]_vars

\* ============================================================ claims ====
\* the row the last successful add_* call appended
appended == loc(df, len(df) - 1)

\* row k of table t is of kind kind
is_kind(t, k, kind) ==
    /\ "record_type" \in t.cols
    /\ k \in index(t)
    /\ loc(t, k)["record_type"] = kind

\* C1: from the empty table, after any successful add_* calls, every
\* impact_link row's source_event is the position of an event row and its
\* target_observation the position of an observation row.
C1_LinksResolve ==
    \A k \in where(df, "record_type", "impact_link") :
        /\ is_kind(df, loc(df, k)["source_event"], "event")
        /\ is_kind(df, loc(df, k)["target_observation"], "observation")

\* C2: add_impact_link(table, S, T, ...) raises, returns no table and leaves
\* the table as it was whenever row S is not an event or row T is not an
\* observation (no such row included); it succeeds only when both are.
C2_AddImpactLinkFailsUnlessBothKinds ==
    [][last'.op = "add_impact_link" =>
        LET both == is_kind(df, last'.S, "event") /\ is_kind(df, last'.T, "observation")
        IN  /\ (last'.status = "ok") <=> both
            /\ ~ both => df' = df
            /\ both => len(df') = len(df) + 1]_vars

C2_Witness ==
    /\ last.op = "add_impact_link"
    /\ last.status = "ValueError"
    /\ is_kind(df, last.S, "event")
    /\ last.T \in index(df)
    /\ ~ is_kind(df, last.T, "observation")

\* C3: add_event never writes a pillar: the row it appends has a null
\* pillar, so no event row of a table built by add_* calls has a pillar.
C3_AddEventWritesNoPillar ==
    /\ (last.op = "add_event" /\ last.status = "ok") => appended["pillar"] = None
    /\ \A k \in where(df, "record_type", "event") : loc(df, k)["pillar"] = None

\* C4: after every mutation every row's record_type is one of observation,
\* event, impact_link, target, baseline, forecast.
C4_RecordTypesEnumerated ==
    \A k \in index(df) :
        loc(df, k)["record_type"] \in
            {"observation", "event", "impact_link", "target", "baseline", "forecast"}

\* C5: add_observation raises and appends nothing unless its pillar argument
\* is access or usage; every observation row it appends has pillar access
\* or usage.
C5_AddObservationPillar ==
    last.op = "add_observation" =>
        /\ (last.status = "ok") <=> (last.pillar \in {"access", "usage"})
        /\ last.status = "ok" => appended["pillar"] \in {"access", "usage"}

\* C6: validate_record_type returns false if the record_type column is
\* absent, and otherwise false iff some row's record_type is outside the
\* six-member enumeration.
C6_ValidateRecordType ==
    last.op = "validate_record_type" =>
        IF "record_type" \notin file.cols
        THEN last.ret = FALSE
        ELSE (last.ret = FALSE) <=>
             \E i \in 1 .. Len(file.rows) :
                 file.rows[i]["record_type"] \notin
                     {"observation", "event", "impact_link", "target", "baseline",
                      "forecast"}

C6_Witness ==
    /\ last.op = "validate_record_type"
    /\ "record_type" \in file.cols
    /\ last.ret = FALSE
    /\ \E i \in 1 .. Len(file.rows) : file.rows[i]["record_type"] = "observation"

\* C7: validate_events_no_pillar returns true when the table is empty or
\* lacks the record_type column, and otherwise false iff some event row has
\* a non-null pillar.
C7_ValidateEventsNoPillar ==
    last.op = "validate_events_no_pillar" =>
        IF Len(file.rows) = 0 \/ "record_type" \notin file.cols
        THEN last.ret = TRUE
        ELSE (last.ret = FALSE) <=>
             \E i \in 1 .. Len(file.rows) :
                 /\ file.rows[i]["record_type"] = "event"
                 /\ file.rows[i]["pillar"] # None

C7_Witness ==
    /\ last.op = "validate_events_no_pillar"
    /\ last.ret = FALSE
    /\ \E i \in 1 .. Len(file.rows) :
           file.rows[i]["record_type"] = "event" /\ file.rows[i]["pillar"] = None

\* impact_link rows of t with a reference that is not the position of an
\* event row, resp. of an observation row
unresolved(t) ==
    {k \in index(t) :
        /\ loc(t, k)["record_type"] = "impact_link"
        /\ \/ ~ is_kind(t, loc(t, k)["source_event"], "event")
           \/ ~ is_kind(t, loc(t, k)["target_observation"], "observation")}

\* C8: validate_impact_links returns true for every table, also when a
\* link's reference does not resolve or the reference columns are missing,
\* while add_impact_link raises for the same references.
C8_ValidateImpactLinksAlwaysTrue ==
    last.op = "validate_impact_links" =>
        /\ last.ret = TRUE
        /\ \A k \in unresolved(file) :
               add_impact_link(file, loc(file, k)["source_event"],
                               loc(file, k)["target_observation"], "positive",
                               "high", NoMetadata).status # "ok"

C8_Witness ==
    /\ last.op = "validate_impact_links"
    /\ last.ret = TRUE
    /\ "source_event" \in file.cols
    /\ \E k \in unresolved(file) : loc(file, k)["source_event"] = DanglingRef
    /\ where(file, "record_type", "event") # {}

\* C9: load_unified_data raises the validation error exactly when
\* validate_record_type or validate_events_no_pillar is false on the table
\* read, and otherwise returns the table as read.
C9_LoadRaisesValidationErrorIff ==
    last.op = "load_unified_data" =>
        /\ (last.status = "ValueError") <=>
               (~ validate_record_type(file) \/ ~ validate_events_no_pillar(file))
        /\ last.status # "ValueError" => (last.status = "ok" /\ df = file)

\* C10: a table that is otherwise valid but holds impact_link rows pointing
\* at no row or at a row of the wrong kind loads: every row is returned.
C10_LoadKeepsDanglingLinks ==
    (/\ last.op = "load_unified_data"
     /\ "record_type" \in file.cols
     /\ \A k \in index(file) :
            /\ loc(file, k)["record_type"] \in
                   {"observation", "event", "impact_link", "target", "baseline",
                    "forecast"}
            /\ loc(file, k)["record_type"] = "event" => loc(file, k)["pillar"] = None
     /\ unresolved(file) # {})
    => (last.status = "ok" /\ df = file)

C10_Witness ==
    /\ last.op = "load_unified_data"
    /\ last.status = "ok"
    /\ \E k \in unresolved(df) : loc(df, k)["source_event"] = DanglingRef
    /\ \E k \in unresolved(df) :
           /\ loc(df, k)["source_event"] \in index(df)
           /\ ~ is_kind(df, loc(df, k)["source_event"], "event")

\* C11: for every table reachable by load and add_*, saving it and loading
\* the saved file succeeds and gives a table with the same number of rows
\* and the same record_type and impact-link references at every position.
C11_RoundTrip ==
    [][last'.op = "save_enriched_data" =>
        /\ last'.status = "ok"
        /\ len(df') = len(df)
        /\ \A k \in index(df) :
               /\ loc(df', k)["record_type"] = loc(df, k)["record_type"]
               /\ loc(df', k)["source_event"] = loc(df, k)["source_event"]
               /\ loc(df', k)["target_observation"] = loc(df, k)["target_observation"]]_vars

\* the impact_link rows of the session's table, in table order
link_rows == ascending(where(df, "record_type", "impact_link"))

\* C12: for a table built by add_event, add_observation and add_impact_link
\* get_events_with_impacts returns one summary row per impact_link, with the
\* name and year of the event row the link references, the pillar of the
\* observation row it references and the link's impact_direction.
C12_SummaryRowPerLink ==
    (/\ last.op = "get_events_with_impacts"
     /\ Len(link_rows) > 0
     /\ C1_LinksResolve)
    => /\ last.status = "ok"
       /\ Len(out) = Len(link_rows)
       /\ \A i \in 1 .. Len(link_rows) :
              LET link == loc(df, link_rows[i])
              IN  /\ out[i].event_name = loc(df, link["source_event"])["event_name"]
                  /\ out[i].event_year = loc(df, link["source_event"])["year"]
                  /\ out[i].indicator = loc(df, link["target_observation"])["pillar"]
                  /\ out[i].direction = link["impact_direction"]

\* C13: each successful add_observation, add_event or add_impact_link gives
\* a table with exactly one more row in which every earlier row keeps its
\* position and its values in all earlier columns; no row is deleted or
\* rewritten, and a call that raises leaves the table as it was.
C13_AppendOnly ==
    [][last'.op \in {"add_observation", "add_event", "add_impact_link"} =>
        IF last'.status = "ok"
        THEN /\ len(df') = len(df) + 1
             /\ df.cols \subseteq df'.cols
             /\ \A k \in index(df) : \A c \in df.cols :
                    loc(df', k)[c] = loc(df, k)[c]
        ELSE df' = df]_vars

C13_Witness ==
    /\ last.op = "add_impact_link"
    /\ last.status = "ok"
    /\ len(df) = MaxRows
    /\ loc(df, 0)["record_type"] # loc(df, 1)["record_type"]

\* the count a mapping of counts gives v
count_of(m, v) == IF v \in DOMAIN m THEN m[v] ELSE 0

\* rows of the session's table whose column c is v
rows_with(c, v) == {i \in 1 .. Len(df.rows) : df.rows[i][c] = v}

\* C14: quantify_dataset_composition on an empty table returns
\* total_records = 0, every grouped count as an empty mapping and
\* year_range = {min: None, max: None}.
C14_CompositionOfEmptyTable ==
    (last.op = "quantify_dataset_composition" /\ Len(df.rows) = 0)
    => /\ last.status = "ok"
       /\ out.total_records = 0
       /\ DOMAIN out.by_record_type = {}
       /\ DOMAIN out.by_pillar = {}
       /\ DOMAIN out.by_source_type = {}
       /\ DOMAIN out.by_confidence = {}
       /\ out.year_range = [min |-> NaN, max |-> NaN]

C14_Witness ==
    /\ last.op = "quantify_dataset_composition"
    /\ last.status = "ok"
    /\ Len(df.rows) = 0
    /\ {"record_type", "pillar", "year"} \subseteq df.cols

\* C15: quantify_dataset_composition never fails, whichever of the columns
\* record_type, pillar, source_type, confidence and year the table has; the
\* count of a missing column is an empty mapping (by_pillar also when
\* record_type is missing) and the year range of a missing year is None.
C15_CompositionNeverFails ==
    last.op = "quantify_dataset_composition" =>
        /\ last.status = "ok"
        /\ "record_type" \notin df.cols =>
               (DOMAIN out.by_record_type = {} /\ DOMAIN out.by_pillar = {})
        /\ "pillar" \notin df.cols => DOMAIN out.by_pillar = {}
        /\ "source_type" \notin df.cols => DOMAIN out.by_source_type = {}
        /\ "confidence" \notin df.cols => DOMAIN out.by_confidence = {}
        /\ "year" \notin df.cols => out.year_range = [min |-> NaN, max |-> NaN]

C15_Witness ==
    /\ last.op = "quantify_dataset_composition"
    /\ last.status = "ok"
    /\ "record_type" \in df.cols
    /\ "pillar" \notin df.cols
    /\ rows_with("record_type", "observation") # {}
    /\ DOMAIN out.by_pillar = {}

\* C16: for a table with the columns, total_records is the number of rows,
\* by_record_type[k] the number of rows of kind k and by_pillar[p] the
\* number of observation rows with pillar p.
C16_CompositionCounts ==
    (/\ last.op = "quantify_dataset_composition"
     /\ {"record_type", "pillar"} \subseteq df.cols)
    => /\ last.status = "ok"
       /\ out.total_records = Len(df.rows)
       /\ \A k \in {"observation", "event", "impact_link", "target", "baseline",
                     "forecast"} :
              count_of(out.by_record_type, k) =
                  Cardinality(rows_with("record_type", k))
       /\ \A p \in {"access", "usage"} :
              count_of(out.by_pillar, p) =
                  Cardinality(rows_with("record_type", "observation")
                              \cap rows_with("pillar", p))

C16_Witness ==
    /\ last.op = "quantify_dataset_composition"
    /\ last.status = "ok"
    /\ {"record_type", "pillar"} \subseteq df.cols
    /\ rows_with("record_type", "event") \cap rows_with("pillar", "access") # {}
    /\ count_of(out.by_pillar, "access") = 1
    /\ count_of(out.by_record_type, "event") = 2

\* the non-null years of the session's table
years_of_table ==
    IF "year" \in df.cols
    THEN {df.rows[i]["year"] : i \in 1 .. Len(df.rows)} \ {NaN}
    ELSE {}

\* C17: year_range is {min: None, max: None} when the year column is absent
\* or every year is null, and otherwise min and max are the smallest and
\* the largest non-null year over the rows of every kind.
C17_YearRange ==
    last.op = "quantify_dataset_composition" =>
        /\ last.status = "ok"
        /\ IF years_of_table = {}
           THEN out.year_range = [min |-> NaN, max |-> NaN]
           ELSE /\ out.year_range.min \in years_of_table
                /\ out.year_range.max \in years_of_table
                /\ \A y \in years_of_table :
                       out.year_range.min <= y /\ y <= out.year_range.max

C17_Witness ==
    /\ last.op = "quantify_dataset_composition"
    /\ last.status = "ok"
    /\ out.year_range.min = 2020
    /\ out.year_range.max = 2021
    /\ \E i \in rows_with("record_type", "event") : df.rows[i]["year"] = NaN

\* the impact_link rows whose source_event is the row id of an event row
\* and whose target_observation is the row id of an observation row, as
\* get_events_with_impacts identifies rows
joined_links ==
    {k \in where(df, "record_type", "impact_link") :
        /\ \E e \in where(df, "record_type", "event") :
               rid(df, e) = loc(df, k)["source_event"]
        /\ \E o \in where(df, "record_type", "observation") :
               rid(df, o) = loc(df, k)["target_observation"]}

\* C18: in get_events_with_impacts an impact_link whose source_event or
\* target_observation does not resolve to an event / observation row gives
\* no summary row, and the call never raises.  Stated for the tables that
\* hold such a link and have the columns the join reads.
C18_UnresolvedLinksDropped ==
    (/\ last.op = "get_events_with_impacts"
     /\ {"record_type", "pillar", "year"} \subseteq df.cols
     /\ where(df, "record_type", "impact_link") \ joined_links # {})
    => /\ last.status = "ok"
       /\ Len(out) = Cardinality(joined_links)

\* C19: the dashboard readers (composition, load_observations, load_events,
\* get_events_with_impacts) return a result and never raise on an empty
\* store (the column-less table) or a store lacking optional columns.
C19_ReadersNeverRaise ==
    last.op \in {"quantify_dataset_composition", "load_observations", "load_events",
                 "get_events_with_impacts"}
    => last.status = "ok"

\* C20: get_observations_by_pillar, get_events_by_year and
\* get_impact_links_for_event never fail: on a table without a column they
\* filter on, or an empty table, they return an empty result.
C20_QueryHelpersNeverFail ==
    last.op \in {"get_observations_by_pillar", "get_events_by_year",
                 "get_impact_links_for_event"}
    => /\ last.status = "ok"
       /\ (Len(df.rows) = 0 \/ "record_type" \notin df.cols) => out = {}

\* C21: get_impact_links_for_event(table, E) returns exactly the impact_link
\* rows whose source_event equals E; asked for the event a link was just
\* appended to with add_impact_link, it returns that link's row.
C21_LinksForEvent ==
    [][(/\ last.op = "add_impact_link"
        /\ last.status = "ok"
        /\ last'.op = "get_impact_links_for_event"
        /\ last'.S = last.S)
       => /\ last'.status = "ok"
          /\ (len(df) - 1) \in out'
          /\ \A k \in out' :
                 /\ is_kind(df, k, "impact_link")
                 /\ loc(df, k)["source_event"] = last.S]_vars

\* the impact_link rows with both references present, in table order: the
\* links get_events_with_impacts makes a summary row for
summarised_links ==
    ascending({k \in where(df, "record_type", "impact_link") :
                  /\ loc(df, k)["source_event"] # NaN
                  /\ loc(df, k)["target_observation"] # NaN})

\* C22: in get_events_with_impacts the summary row of a link whose source
\* event has no event_name carries that event's event_type, and the label
\* "Event " + reference if the event_type is missing too; the summary name
\* is never null.
C22_EventNameFallback ==
    (/\ last.op = "get_events_with_impacts"
     /\ last.status = "ok"
     /\ Len(out) > 0)
    => \A i \in 1 .. Len(out) :
           LET se == loc(df, summarised_links[i])["source_event"]
               match == {e \in where(df, "record_type", "event") : rid(df, e) = se}
           IN  /\ out[i].event_name # None
               /\ \A e \in match :
                      ("event_name" \notin df.cols \/ loc(df, e)["event_name"] = None)
                      => out[i].event_name =
                            IF "event_type" \in df.cols /\ loc(df, e)["event_type"] # None
                            THEN loc(df, e)["event_type"]
                            ELSE "Event " \o ToString(se)

\* the fields an add_* call writes from its own arguments
fields_of(op) ==
    CASE op = "add_observation" ->
            {"record_type", "year", "value", "pillar", "source_type", "confidence"}
      [] op = "add_event" ->
            {"record_type", "year", "event_name", "event_type", "source_type",
             "confidence"}
      [] op = "add_impact_link" ->
            {"record_type", "source_event", "target_observation", "impact_direction",
             "confidence"}

\* C23: the row an add_* call appends is null in every column the table
\* already has and the call (its arguments and its metadata) does not
\* supply; a metadata key that is not yet a column becomes a column that is
\* null in every earlier row and holds the metadata value in the new row.
C23_NullsAndNewColumns ==
    [][(/\ last'.op \in {"add_observation", "add_event", "add_impact_link"}
        /\ last'.status = "ok")
       => LET supplied == fields_of(last'.op) \cup DOMAIN last'.merged
              new == loc(df', len(df))
          IN  /\ df'.cols = df.cols \cup supplied
              /\ \A c \in df.cols \ supplied : new[c] = NA(c)
              /\ \A c \in (DOMAIN last'.merged) \ df.cols :
                     /\ new[c] = last'.merged[c]
                     /\ \A k \in index(df) : loc(df', k)[c] = NA(c)]_vars

C23_Witness ==
    /\ last.op = "add_event"
    /\ last.status = "ok"
    /\ last.merged = [c \in {"note"} |-> "x"]
    /\ len(df) = 2
    /\ loc(df, 0)["record_type"] = "observation"
    /\ loc(df, 0)["note"] = None
    /\ loc(df, 0)["pillar"] # None
    /\ appended["note"] = "x"
    /\ appended["pillar"] = None
    /\ appended["value"] = NaN

\* C24: get_events_with_impacts returns an empty result whenever the table
\* has a record_type column and holds no observation row, or no event row,
\* or no impact_link row.
C24_EmptyWhenAKindIsAbsent ==
    (/\ last.op = "get_events_with_impacts"
     /\ "record_type" \in df.cols
     /\ \/ where(df, "record_type", "observation") = {}
        \/ where(df, "record_type", "event") = {}
        \/ where(df, "record_type", "impact_link") = {})
    => /\ last.status = "ok"
       /\ out = << >>

C24_Witness ==
    /\ last.op = "get_events_with_impacts"
    /\ last.status = "ok"
    /\ out = << >>
    /\ {"record_type", "pillar", "year"} \subseteq df.cols
    /\ where(df, "record_type", "event") = {}
    /\ where(df, "record_type", "observation") # {}
    /\ \E k \in where(df, "record_type", "impact_link") :
           /\ loc(df, k)["source_event"] # NaN
           /\ loc(df, k)["target_observation"] # NaN

\* the kind of row an add_* operation writes
kind_of(op) ==
    CASE op = "add_observation" -> "observation"
      [] op = "add_event" -> "event"
      [] op = "add_impact_link" -> "impact_link"

\* C25: the row appended by add_observation, add_event, add_impact_link has
\* record_type observation, event, impact_link respectively, and holds the
\* validated pillar (add_observation) and the validated source_event and
\* target_observation (add_impact_link), whatever the metadata.
C25_ValidatedFieldsStored ==
    (/\ last.op \in {"add_observation", "add_event", "add_impact_link"}
     /\ last.status = "ok")
    => /\ appended["record_type"] = kind_of(last.op)
       /\ last.op = "add_observation" => appended["pillar"] = last.pillar
       /\ last.op = "add_impact_link" =>
              /\ appended["source_event"] = last.S
              /\ appended["target_observation"] = last.T

\* the rows get_events_with_impacts takes for reference ref among the rows
\* of kind kind
joined_rows(kind, ref) ==
    {k \in where(df, "record_type", kind) : rid(df, k) = ref}

\* C26: for a table built by add_* calls, the row add_impact_link checked
\* for a link's reference (the row at that position), the row
\* validate_impact_links takes it for (index membership) and the row
\* get_events_with_impacts joins it to (row id) are the same row, so the
\* validator finds no unresolved reference and the join resolves every link.
C26_ReferencesAgree ==
    \A k \in where(df, "record_type", "impact_link") :
        LET se == loc(df, k)["source_event"]
            to == loc(df, k)["target_observation"]
        IN  (is_kind(df, se, "event") /\ is_kind(df, to, "observation"))
            => /\ k \notin validate_impact_links(df).invalid_events
               /\ k \notin validate_impact_links(df).invalid_obs
               /\ joined_rows("event", se) = {se}
               /\ joined_rows("observation", to) = {to}

====
